---- MODULE Spec2Model ----
(***************************************************************************)
(* Model of gfootball/env/__init__.py: the construction of a Google        *)
(* Research Football environment (create_environment and the helpers it    *)
(* calls) and the state()/state_space capability attached to simplev1      *)
(* environments.                                                           *)
(*                                                                         *)
(* Python strings on which the code performs string operations (split,     *)
(* startswith, in, ==, % formatting) are modelled as sequences of          *)
(* one-character strings, and those operations are modelled on the         *)
(* characters.  A wrapped environment is a record holding the sequence of  *)
(* stages wrapped so far (innermost first), the attributes attached to the *)
(* innermost FootballEnv instance, and the exception raised, if any.       *)
(***************************************************************************)
EXTENDS Integers, Sequences, FiniteSets, TLC

VARIABLES
    classAttrs,   \* attributes attached to the FootballEnv class (shared by every instance)
    envs,         \* the environments returned so far: [representation, attrs]
    call,         \* the last create_environment call: its arguments and its outcome
    frame,        \* the simulator's current observation frame and the scenario's engine config
    stateOut,     \* the last value returned by state() (<<>> before any call)
    spaceOut      \* the last shape returned by state_space (<<>> before any access)

vars == <<classAttrs, envs, call, frame, stateOut, spaceOut>>

(***************************************************************************)
(* Bounds of the model.                                                    *)
(***************************************************************************)
MaxControlled == 2      \* requested left/right agent-control counts range over 0..MaxControlled
MaxDumpFrequency == 2   \* dump_frequency ranges over 0..MaxDumpFrequency
MaxCalls == 3           \* length of a sequence of create_environment calls in one process
MaxTeam == 11           \* team sizes range over 1..MaxTeam
MaxAgents == 2          \* number of controlled agents in an observation frame

(***************************************************************************)
(* Program constants.                                                      *)
(***************************************************************************)
FrameStackDepth == 4    \* wrappers.FrameStack(env, 4)
NumGameModes == 7       \* np.eye(7)
StateOverhead == 16     \* "+ 16" of state_space: ball 3 + 3, ownership 3, game mode 7

(***************************************************************************)
(* String literals of the source, as character sequences.                  *)
(***************************************************************************)
S_pixels ==
    <<"p", "i", "x", "e", "l", "s">>
S_pixels_gray ==
    <<"p", "i", "x", "e", "l", "s", "_", "g", "r", "a", "y">>
S_extracted ==
    <<"e", "x", "t", "r", "a", "c", "t", "e", "d">>
S_simple115 ==
    <<"s", "i", "m", "p", "l", "e", "1", "1", "5">>
S_simple115v2 ==
    <<"s", "i", "m", "p", "l", "e", "1", "1", "5", "v", "2">>
S_simplev1 ==
    <<"s", "i", "m", "p", "l", "e", "v", "1">>
S_raw ==
    <<"r", "a", "w">>
S_gray ==
    <<"g", "r", "a", "y">>
S_scoring ==
    <<"s", "c", "o", "r", "i", "n", "g">>
S_checkpoints ==
    <<"c", "h", "e", "c", "k", "p", "o", "i", "n", "t", "s">>
S_unsupported_prefix ==
    <<"U", "n", "s", "u", "p", "p", "o", "r", "t", "e", "d", " ", "r", "e", "p", "r",
      "e", "s", "e", "n", "t", "a", "t", "i", "o", "n", ":", " ">>
S_agent_left ==
    <<"a", "g", "e", "n", "t", ":", "l", "e", "f", "t", "_", "p", "l", "a", "y", "e",
      "r", "s", "=">>
S_right ==
    <<",", "r", "i", "g", "h", "t", "_", "p", "l", "a", "y", "e", "r", "s", "=">>

(***************************************************************************)
(* Argument strings that are not literals of the source.                   *)
(***************************************************************************)
S_pixels_rgb ==
    <<"p", "i", "x", "e", "l", "s", "_", "r", "g", "b">>
S_unsupported_repr ==
    <<"u", "n", "s", "u", "p", "p", "o", "r", "t", "e", "d", "_", "r", "e", "p", "r">>
S_Raw ==
    <<"R", "a", "w">>
S_scoring_checkpoints ==
    <<"s", "c", "o", "r", "i", "n", "g", ",", "c", "h", "e", "c", "k", "p", "o", "i",
      "n", "t", "s">>
S_scoringx ==
    <<"s", "c", "o", "r", "i", "n", "g", "x">>
S_bot ==
    <<"b", "o", "t", ":", "l", "e", "f", "t", "_", "p", "l", "a", "y", "e", "r", "s",
      "=", "1">>

(***************************************************************************)
(* Python string operations.                                               *)
(***************************************************************************)
\* s.startswith(p)
StartsWith(s, p) ==
    Len(s) >= Len(p) /\ SubSeq(s, 1, Len(p)) = p

\* sub in s
Contains(s, sub) ==
    \E i \in 1..(Len(s) - Len(sub) + 1) : SubSeq(s, i, i + Len(sub) - 1) = sub

\* s.split(sep) for a one-character sep: the set of the components
\* (the code only tests membership in the list split returns)
RECURSIVE SplitFrom(_, _, _, _)
SplitFrom(s, sep, i, cur) ==
    IF i > Len(s) THEN {cur}
    ELSE IF s[i] = sep THEN {cur} \cup SplitFrom(s, sep, i + 1, <<>>)
    ELSE SplitFrom(s, sep, i + 1, Append(cur, s[i]))

Split(s, sep) ==
    SplitFrom(s, sep, 1, <<>>)

\* "%d" % n for a non-negative integer n
Digit ==
    <<"0", "1", "2", "3", "4", "5", "6", "7", "8", "9">>

RECURSIVE FormatD(_)
FormatD(n) ==
    IF n < 10 THEN <<Digit[n + 1]>>
    ELSE FormatD(n \div 10) \o <<Digit[(n % 10) + 1]>>

\* "agent:left_players=%d,right_players=%d" % (l, r)
AgentPlayer(l, r) ==
    S_agent_left \o FormatD(l) \o S_right \o FormatD(r)

(***************************************************************************)
(* Wrapped environments.                                                   *)
(***************************************************************************)
NoError == [type |-> "none", message |-> <<>>]

Stage(name, args) == [name |-> name, args |-> args]

B(b) == IF b THEN 1 ELSE 0

\* wrappers.X(env, ...): one more stage around env
Wrap(env, name, args) ==
    [env EXCEPT !.stages = Append(@, Stage(name, args))]

Raise(env, type, message) ==
    [env EXCEPT !.raised = [type |-> type, message |-> message]]

Raised(env) == env.raised # NoError

\* football_env.FootballEnv(c)
FootballEnv(c) ==
    [stages |-> <<Stage("FootballEnv", <<>>)>>, config |-> c, attrs |-> {},
     newClassAttrs |-> {}, rendered |-> FALSE, raised |-> NoError]

(***************************************************************************)
(* Python dictionaries: functions from keys to values.                     *)
(***************************************************************************)
\* d.update(o): every key of o replaces or adds, the other keys of d stay
DictUpdate(d, o) ==
    [k \in (DOMAIN d) \cup (DOMAIN o) |-> IF k \in DOMAIN o THEN o[k] ELSE d[k]]

\* d.get(key, default)
DictGet(d, key, default) ==
    IF key \in DOMAIN d THEN d[key] ELSE default

\* Variant of _process_reward_wrappers that does not insist on "scoring".
process_reward_wrappers_unchecked(env, rewards) ==
    IF S_checkpoints \in Split(rewards, ",")
    THEN Wrap(env, "CheckpointRewardWrapper", <<>>)
    ELSE env

(***************************************************************************)
(* _process_reward_wrappers(env, rewards)                                  *)
(***************************************************************************)
process_reward_wrappers(env, rewards) ==
    IF S_scoring \notin Split(rewards, ",")
    THEN Raise(env, "AssertionError", <<>>)
    ELSE IF S_checkpoints \in Split(rewards, ",")
         THEN Wrap(env, "CheckpointRewardWrapper", <<>>)
         ELSE env

(***************************************************************************)
(* _process_representation_wrappers(env, representation,                   *)
(*                                  channel_dimensions)                    *)
(***************************************************************************)
process_representation_wrappers(env, representation, channel_dimensions) ==
    IF StartsWith(representation, S_pixels)
    THEN Wrap(env, "PixelsStateWrapper",
              <<B(Contains(representation, S_gray))>> \o channel_dimensions)
    ELSE IF representation = S_simple115
    THEN Wrap(env, "Simple115StateWrapper", <<B(FALSE)>>)
    ELSE IF representation = S_simple115v2
    THEN Wrap(env, "Simple115StateWrapper", <<B(TRUE)>>)
    ELSE IF representation = S_simplev1
    THEN Wrap(env, "SimpleStateWrapper", <<>>)
    ELSE IF representation = S_extracted
    THEN Wrap(env, "SMMWrapper", channel_dimensions)
    ELSE IF representation = S_raw
    THEN env
    ELSE Raise(env, "ValueError", S_unsupported_prefix \o representation)

(***************************************************************************)
(* _apply_output_wrappers(env, rewards, representation,                    *)
(*     channel_dimensions, apply_single_agent_wrappers, stacked,           *)
(*     action_mask)                                                        *)
(***************************************************************************)
ApplyActionMask(env, action_mask) ==
    IF action_mask THEN Wrap(env, "ActionMaskWrapper", <<>>) ELSE env

ApplySingleAgent(env, representation, apply_single_agent_wrappers) ==
    IF apply_single_agent_wrappers
    THEN Wrap(IF representation # S_raw
              THEN Wrap(env, "SingleAgentObservationWrapper", <<>>)
              ELSE env,
              "SingleAgentRewardWrapper", <<>>)
    ELSE env

ApplyFrameStack(env, stacked) ==
    IF stacked THEN Wrap(env, "FrameStack", <<FrameStackDepth>>) ELSE env

\* Variant of _apply_output_wrappers that stacks frames before the
\* single-agent wrappers.
apply_output_wrappers_stack_first(env, rewards, representation, channel_dimensions, apply_single_agent_wrappers, stacked, action_mask) ==
    LET e1 == process_reward_wrappers(env, rewards)
        e2 == process_representation_wrappers(e1, representation, channel_dimensions)
        e3 == ApplyActionMask(e2, action_mask)
        e4 == ApplyFrameStack(e3, stacked)
        e5 == ApplySingleAgent(e4, representation, apply_single_agent_wrappers)
    IN  IF Raised(e1) THEN e1
        ELSE IF Raised(e2) THEN e2
        ELSE Wrap(e5, "GetStateWrapper", <<>>)

apply_output_wrappers(env, rewards, representation, channel_dimensions, apply_single_agent_wrappers, stacked, action_mask) ==
    LET e1 == process_reward_wrappers(env, rewards)
        e2 == process_representation_wrappers(e1, representation, channel_dimensions)
        e3 == ApplyActionMask(e2, action_mask)
        e4 == ApplySingleAgent(e3, representation, apply_single_agent_wrappers)
        e5 == ApplyFrameStack(e4, stacked)
    IN  IF Raised(e1) THEN e1
        ELSE IF Raised(e2) THEN e2
        ELSE Wrap(e5, "GetStateWrapper", <<>>)

(***************************************************************************)
(* _apply_state_wrappers(env, representation): for simplev1 the property   *)
(* state_space is assigned on env.__class__ and the method state on env.   *)
(***************************************************************************)
apply_state_wrappers(env, representation) ==
    IF representation \in {S_simplev1}
    THEN [env EXCEPT !.newClassAttrs = @ \cup {"state_space"},
                     !.attrs = @ \cup {"state"}]
    ELSE env

(***************************************************************************)
(* create_environment                                                      *)
(***************************************************************************)
\* Variant of the reduction test that looks at the left count only.
multiagent_to_singleagent_left_only(scenario_config, left, right) ==
    scenario_config.control_all_players /\ left \in {0, 1}

\* "Enable MultiAgentToSingleAgent wrapper?"
multiagent_to_singleagent(scenario_config, left, right) ==
    scenario_config.control_all_players /\ left \in {0, 1} /\ right \in {0, 1}

\* the players list, before extra_players are appended
Players(scenario_config, left, right) ==
    IF multiagent_to_singleagent(scenario_config, left, right)
    THEN <<AgentPlayer(IF left # 0 THEN scenario_config.controllable_left_players ELSE 0,
                       IF right # 0 THEN scenario_config.controllable_right_players ELSE 0)>>
    ELSE <<AgentPlayer(left, right)>>

\* if extra_players is not None: players.extend(extra_players)
ExtendPlayers(players, extra_players) ==
    IF extra_players.given THEN players \o extra_players.list ELSE players

\* Variant of the merge in which the named arguments win over the overrides.
ConfigValues_named_win(a, players) ==
    DictUpdate(a.other_config_options,
               [dump_full_episodes |-> a.write_full_episode_dumps,
                dump_scores |-> a.write_goal_dumps,
                players |-> players,
                level |-> a.env_name,
                tracesdir |-> a.logdir,
                write_video |-> a.write_video])

\* config_values = {...}; config_values.update(other_config_options)
ConfigValues(a, players) ==
    DictUpdate([dump_full_episodes |-> a.write_full_episode_dumps,
                dump_scores |-> a.write_goal_dumps,
                players |-> players,
                level |-> a.env_name,
                tracesdir |-> a.logdir,
                write_video |-> a.write_video],
               a.other_config_options)

\* if multiagent_to_singleagent: env = wrappers.MultiAgentToSingleAgent(env, left, right)
ApplyMultiAgentToSingleAgent(env, reduce, left, right) ==
    IF reduce THEN Wrap(env, "MultiAgentToSingleAgent", <<left, right>>) ELSE env

\* if dump_frequency > 1: PeriodicDumpWriter ... elif render: env.render()
ApplyDump(env, dump_frequency, render) ==
    IF dump_frequency > 1
    THEN Wrap(env, "PeriodicDumpWriter", <<dump_frequency, B(render)>>)
    ELSE IF render THEN [env EXCEPT !.rendered = TRUE]
    ELSE env

\* the apply_single_agent_wrappers argument passed to _apply_output_wrappers
SingleAgentRequested(left, right) ==
    left + right = 1

\* Variant of the assembly that applies the output wrappers directly around
\* the simulator, before the reduction stage and the dump hook.
Assemble_output_first(a, c, reduce) ==
    LET left == a.number_of_left_players_agent_controls
        right == a.number_of_right_players_agent_controls
        e0 == FootballEnv(c)
        e1 == apply_state_wrappers(e0, a.representation)
        e2 == apply_output_wrappers(e1, a.rewards, a.representation, a.channel_dimensions,
                                    SingleAgentRequested(left, right), a.stacked,
                                    DictGet(c, "action_mask", TRUE))
        e3 == ApplyMultiAgentToSingleAgent(e2, reduce, left, right)
    IN  IF Raised(e2) THEN e2 ELSE ApplyDump(e3, a.dump_frequency, a.render)

\* env = football_env.FootballEnv(c) and the wrapping that follows it, to
\* the return: the environment returned, or the exception raised and the
\* environment as wrapped up to that point.
Assemble(a, c, reduce) ==
    LET left == a.number_of_left_players_agent_controls
        right == a.number_of_right_players_agent_controls
        e0 == FootballEnv(c)
        e1 == apply_state_wrappers(e0, a.representation)
        e2 == ApplyMultiAgentToSingleAgent(e1, reduce, left, right)
        e3 == ApplyDump(e2, a.dump_frequency, a.render)
    IN  apply_output_wrappers(e3, a.rewards, a.representation, a.channel_dimensions,
                              SingleAgentRequested(left, right), a.stacked,
                              DictGet(c, "action_mask", TRUE))

\* The whole of create_environment on arguments a.
create_environment(a) ==
    IF a.env_name = ""
    THEN [players |-> <<>>, reduce |-> FALSE,
          env |-> [stages |-> <<>>, config |-> <<>>, attrs |-> {}, newClassAttrs |-> {},
                   rendered |-> FALSE,
                   raised |-> [type |-> "AssertionError", message |-> <<>>]]]
    ELSE
    LET left == a.number_of_left_players_agent_controls
        right == a.number_of_right_players_agent_controls
        scenario_config == a.scenario_config
        reduce == multiagent_to_singleagent(scenario_config, left, right)
        players == ExtendPlayers(Players(scenario_config, left, right), a.extra_players)
        c == ConfigValues(a, players)
    IN  [players |-> players, reduce |-> reduce, env |-> Assemble(a, c, reduce)]

(***************************************************************************)
(* The arguments create_environment is called with.                        *)
(***************************************************************************)
\* (env_name, what config.Config({"level": env_name}).ScenarioConfig()
\* returns for it); the empty name is rejected before it is resolved
Scenarios ==
    { [name |-> "11_vs_11_stochastic", control_all_players |-> FALSE,
       controllable_left_players |-> 11, controllable_right_players |-> 11],
      [name |-> "academy_3_vs_1_with_keeper", control_all_players |-> TRUE,
       controllable_left_players |-> 3, controllable_right_players |-> 0],
      [name |-> "5_vs_5", control_all_players |-> TRUE,
       controllable_left_players |-> 4, controllable_right_players |-> 4],
      [name |-> "", control_all_players |-> FALSE,
       controllable_left_players |-> 0, controllable_right_players |-> 0] }

RepresentationKeys ==
    {S_pixels, S_pixels_gray, S_extracted, S_simple115, S_simple115v2, S_simplev1, S_raw}

RepresentationArgs ==
    RepresentationKeys \cup {S_pixels_rgb, S_unsupported_repr, S_Raw}

RewardsArgs ==
    {S_scoring, S_scoring_checkpoints, S_checkpoints, S_scoringx, <<>>}

ExtraPlayersArgs ==
    {[given |-> FALSE, list |-> <<>>], [given |-> TRUE, list |-> <<S_bot>>]}

OverrideArgs ==
    { [k \in {} |-> TRUE],
      [k \in {"action_mask"} |-> FALSE],
      [players |-> <<AgentPlayer(2, 0)>>, level |-> "academy_run_to_score"],
      [players |-> <<AgentPlayer(1, 0)>>, write_video |-> TRUE] }

DefaultChannelDimensions == <<96, 72>>

DefaultArgs ==
    [env_name |-> "11_vs_11_stochastic",
     scenario_config |-> [name |-> "11_vs_11_stochastic", control_all_players |-> FALSE,
                          controllable_left_players |-> 11,
                          controllable_right_players |-> 11],
     stacked |-> FALSE, representation |-> S_extracted, rewards |-> S_scoring,
     write_goal_dumps |-> FALSE, write_full_episode_dumps |-> FALSE, render |-> FALSE,
     write_video |-> FALSE, dump_frequency |-> 1, logdir |-> "", 
     extra_players |-> [given |-> FALSE, list |-> <<>>],
     number_of_left_players_agent_controls |-> 1,
     number_of_right_players_agent_controls |-> 0,
     channel_dimensions |-> DefaultChannelDimensions,
     other_config_options |-> [k \in {} |-> TRUE]]

(***************************************************************************)
(* State and actions.                                                      *)
(***************************************************************************)
NoCall == [status |-> "none"]

NoFrame == [observation |-> <<>>]

Init ==
    /\ classAttrs = {}
    /\ envs = <<>>
    /\ call = NoCall
    /\ frame = NoFrame
    /\ stateOut = <<>>
    /\ spaceOut = <<>>

\* One call of create_environment with arguments a.
CreateEnvironment(a) ==
    LET r == create_environment(a)
    IN  /\ call' = [status |-> IF Raised(r.env) THEN "raised" ELSE "returned",
                    args |-> a, players |-> r.players, reduce |-> r.reduce,
                    env |-> r.env]
        /\ classAttrs' = classAttrs \cup r.env.newClassAttrs
        /\ envs' = IF Raised(r.env) THEN envs
                   ELSE Append(envs, [representation |-> a.representation,
                                      attrs |-> r.env.attrs])
        /\ UNCHANGED <<frame, stateOut, spaceOut>>

\* A process that constructs one environment.  The arguments that decide
\* the pipeline vary together in the first disjunct, those that only flow
\* into the configuration record in the second.
Next ==
    /\ call = NoCall
    /\ \/ \E sc \in Scenarios, rep \in RepresentationArgs, rew \in RewardsArgs,
             l \in 0..MaxControlled, r \in 0..MaxControlled,
             st \in BOOLEAN, ren \in BOOLEAN, df \in 0..MaxDumpFrequency,
             ov \in OverrideArgs :
              CreateEnvironment([DefaultArgs EXCEPT
                  !.env_name = sc.name, !.scenario_config = sc,
                  !.representation = rep, !.rewards = rew,
                  !.number_of_left_players_agent_controls = l,
                  !.number_of_right_players_agent_controls = r,
                  !.stacked = st, !.render = ren, !.dump_frequency = df,
                  !.other_config_options = ov])
       \/ \E sc \in Scenarios, l \in 0..MaxControlled, r \in 0..MaxControlled,
             ex \in ExtraPlayersArgs, ov \in OverrideArgs,
             wv \in BOOLEAN, wf \in BOOLEAN, wg \in BOOLEAN, ld \in {"", "/tmp/dumps"} :
              CreateEnvironment([DefaultArgs EXCEPT
                  !.env_name = sc.name, !.scenario_config = sc,
                  !.number_of_left_players_agent_controls = l,
                  !.number_of_right_players_agent_controls = r,
                  !.extra_players = ex, !.other_config_options = ov,
                  !.write_video = wv, !.write_full_episode_dumps = wf,
                  !.write_goal_dumps = wg, !.logdir = ld])

Spec == Init /\ [][Next]_vars

\* A process that constructs up to MaxCalls environments one after the
\* other; the arguments that decide what a call attaches where vary.
NextSeq ==
    /\ Len(envs) < MaxCalls
    /\ \E rep \in RepresentationArgs, rew \in RewardsArgs :
           CreateEnvironment([DefaultArgs EXCEPT
               !.representation = rep, !.rewards = rew])

SpecSeq == Init /\ [][NextSeq]_vars

(***************************************************************************)
(* state_space and state of a simplev1 environment                         *)
(* (_apply_state_wrappers.state_space, _apply_state_wrappers.state).       *)
(***************************************************************************)
\* do_flatten(obj): the entries of a list of rows, row after row
RECURSIVE do_flatten(_)
do_flatten(obj) ==
    IF obj = <<>> THEN <<>> ELSE Head(obj) \o do_flatten(Tail(obj))

\* np.eye(n)[i], for 0 <= i < n
Eye(n, i) ==
    [j \in 1..n |-> IF j = i + 1 THEN 1 ELSE 0]

\* the three tests on first_obs_dict["ball_owned_team"], one after the other
BallOwnership(ball_owned_team) ==
    (IF ball_owned_team = -1 THEN <<1, 0, 0>> ELSE <<>>)
    \o (IF ball_owned_team = 0 THEN <<0, 1, 0>> ELSE <<>>)
    \o (IF ball_owned_team = 1 THEN <<0, 0, 1>> ELSE <<>>)

\* for p_i in player_ids_agent_controls: state.extend(np.eye(len(left_team))[p_i])
RECURSIVE ActiveBlocks(_, _)
ActiveBlocks(n, player_ids_agent_controls) ==
    IF player_ids_agent_controls = <<>> THEN <<>>
    ELSE Eye(n, Head(player_ids_agent_controls))
         \o ActiveBlocks(n, Tail(player_ids_agent_controls))

\* Variant of state() that leaves the ball direction out.
state_without_ball_direction(observation_dicts) ==
    LET first_obs_dict == observation_dicts[1]
        player_ids_agent_controls ==
            [i \in 1..Len(observation_dicts) |-> observation_dicts[i].active]
    IN  do_flatten(first_obs_dict.left_team)
        \o do_flatten(first_obs_dict.left_team_direction)
        \o do_flatten(first_obs_dict.right_team)
        \o do_flatten(first_obs_dict.right_team_direction)
        \o first_obs_dict.ball
        \o BallOwnership(first_obs_dict.ball_owned_team)
        \o Eye(NumGameModes, first_obs_dict.game_mode)
        \o ActiveBlocks(Len(first_obs_dict.left_team), player_ids_agent_controls)

\* state(self), self.observation() being observation_dicts
state(observation_dicts) ==
    LET first_obs_dict == observation_dicts[1]
        player_ids_agent_controls ==
            [i \in 1..Len(observation_dicts) |-> observation_dicts[i].active]
    IN  do_flatten(first_obs_dict.left_team)
        \o do_flatten(first_obs_dict.left_team_direction)
        \o do_flatten(first_obs_dict.right_team)
        \o do_flatten(first_obs_dict.right_team_direction)
        \o first_obs_dict.ball
        \o first_obs_dict.ball_direction
        \o BallOwnership(first_obs_dict.ball_owned_team)
        \o Eye(NumGameModes, first_obs_dict.game_mode)
        \o ActiveBlocks(Len(first_obs_dict.left_team), player_ids_agent_controls)

\* state_space(self).shape
state_space(engine_config, number_of_players_agent_controls) ==
    LET num_left_agents == engine_config.controllable_left_players
        num_right_agents == engine_config.controllable_right_players
    IN  <<4 * (num_left_agents + num_right_agents)
          + number_of_players_agent_controls * num_left_agents
          + StateOverhead>>

(***************************************************************************)
(* The frames the simulator hands to state(): n1 left and n2 right         *)
(* players, k controlled left players of which the first is player a, and  *)
(* a scenario in which cl left and cr right players are controllable.      *)
(***************************************************************************)
ObservationDict(n1, n2, active, ball_owned_team, game_mode) ==
    [left_team |-> [i \in 1..n1 |-> <<-i, i>>],
     left_team_direction |-> [i \in 1..n1 |-> <<0, 1>>],
     right_team |-> [i \in 1..n2 |-> <<i, -i>>],
     right_team_direction |-> [i \in 1..n2 |-> <<0, -1>>],
     ball |-> <<0, 0, 1>>,
     ball_direction |-> <<1, 0, 0>>,
     ball_owned_team |-> ball_owned_team,
     game_mode |-> game_mode,
     active |-> active]

Frame(n1, n2, cl, cr, k, a, ball_owned_team, game_mode) ==
    [observation |-> [j \in 1..k |->
         ObservationDict(n1, n2, (a + j - 1) % n1, ball_owned_team, game_mode)],
     engine_config |-> [controllable_left_players |-> cl,
                        controllable_right_players |-> cr],
     number_of_players_agent_controls |-> k]

InitState ==
    /\ classAttrs = {"state_space"}
    /\ envs = <<[representation |-> S_simplev1, attrs |-> {"state"}]>>
    /\ call = NoCall
    /\ \E n1 \in 1..MaxTeam, n2 \in 1..MaxTeam, k \in 1..MaxAgents,
          b \in {-1, 0, 1}, g \in 0..(NumGameModes - 1) :
        \E cl \in {n1 - 1, n1} \cap (k..n1), cr \in {0, n2}, a \in {0, n1 - 1} :
           frame = Frame(n1, n2, cl, cr, k, a, b, g)
    /\ stateOut = <<>>
    /\ spaceOut = <<>>

\* env.state()
State ==
    /\ stateOut' = state(frame.observation)
    /\ UNCHANGED <<classAttrs, envs, call, frame, spaceOut>>

\* env.state_space
StateSpace ==
    /\ spaceOut' = state_space(frame.engine_config, frame.number_of_players_agent_controls)
    /\ UNCHANGED <<classAttrs, envs, call, frame, stateOut>>

NextState ==
    State \/ StateSpace

SpecState == InitState /\ [][NextState]_vars

(***************************************************************************)
(* Vocabulary of the properties.                                           *)
(***************************************************************************)
\* c is one of the comma-separated components of s
HasComponent(s, c) ==
    /\ \A i \in 1..Len(c) : c[i] # ","
    /\ \E i \in 1..(Len(s) + 1) :
          /\ i + Len(c) - 1 <= Len(s)
          /\ SubSeq(s, i, i + Len(c) - 1) = c
          /\ (i = 1 \/ s[i - 1] = ",")
          /\ (i + Len(c) - 1 = Len(s) \/ s[i + Len(c)] = ",")

Called == call.status # "none"
Returned == call.status = "returned"
Failed == call.status = "raised"
\* the call got past the check of env_name
Resolved == Called /\ call.args.env_name # ""

Left == call.args.number_of_left_players_agent_controls
Right == call.args.number_of_right_players_agent_controls

StageNames(env) == {env.stages[i].name : i \in 1..Len(env.stages)}
HasStage(env, name) == name \in StageNames(env)
Pos(env, name) == CHOOSE i \in 1..Len(env.stages) : env.stages[i].name = name
Count(env, name) == Cardinality({i \in 1..Len(env.stages) : env.stages[i].name = name})
StageArgs(env, name) == env.stages[Pos(env, name)].args

EncoderNames ==
    {"PixelsStateWrapper", "Simple115StateWrapper", "SimpleStateWrapper", "SMMWrapper"}

\* the decimal number that starts at position i of s
RECURSIVE ParseFrom(_, _, _)
ParseFrom(s, i, acc) ==
    IF i > Len(s) \/ ~(\E d \in 1..10 : Digit[d] = s[i]) THEN acc
    ELSE ParseFrom(s, i + 1, acc * 10 + (CHOOSE d \in 1..10 : Digit[d] = s[i]) - 1)

\* the value of "key=<number>" in a player definition, 0 when it has none
FieldValue(player, key) ==
    IF Contains(player, key)
    THEN ParseFrom(player,
                   (CHOOSE i \in 1..Len(player) :
                        SubSeq(player, i, i + Len(key) - 1) = key) + Len(key), 0)
    ELSE 0

LeftPlayers(player) ==
    FieldValue(player, <<"l", "e", "f", "t", "_", "p", "l", "a", "y", "e", "r", "s", "=">>)

RightPlayers(player) ==
    FieldValue(player, <<"r", "i", "g", "h", "t", "_", "p", "l", "a", "y", "e", "r", "s", "=">>)

(***************************************************************************)
(* C1.  A rewards string none of whose comma-separated components is       *)
(* "scoring" makes create_environment fail: the call raises and returns no *)
(* environment, whatever the representation and the requested counts.      *)
(***************************************************************************)
C1_NoScoringFails ==
    (Called /\ ~HasComponent(call.args.rewards, S_scoring))
        => (Failed /\ envs = <<>>)

C1_Witness ==
    /\ Failed
    /\ call.args.rewards = S_checkpoints
    /\ call.args.representation = S_simplev1
    /\ Left = 2 /\ Right = 1
    /\ call.env.raised.type = "AssertionError"
    /\ Len(call.env.stages) > 0

(***************************************************************************)
(* C2.  A representation string that is not exactly one of the seven keys  *)
(* makes construction fail with an error that names the string, and no     *)
(* representation stage is applied (the rewards being valid, so that the   *)
(* representation is looked at).                                           *)
(***************************************************************************)
C2_UnsupportedRepresentationFails ==
    (Resolved /\ HasComponent(call.args.rewards, S_scoring)
              /\ call.args.representation \notin RepresentationKeys)
        => /\ Failed
           /\ Contains(call.env.raised.message, call.args.representation)
           /\ StageNames(call.env) \cap EncoderNames = {}

(***************************************************************************)
(* C3.  The roster follows the reference: reduce is true iff the scenario  *)
(* controls all players and both requested counts are 0 or 1; without      *)
(* reduce the primary agent's counts are the requested ones; with reduce   *)
(* they are the scenario's controllable counts (0 where 0 was requested)   *)
(* and the returned pipeline holds the reduction stage, configured with    *)
(* the requested counts.                                                   *)
(***************************************************************************)
C3_RosterReference ==
    Resolved =>
        LET sc == call.args.scenario_config
            primary == call.players[1]
        IN  /\ call.reduce <=> (sc.control_all_players /\ Left \in {0, 1} /\ Right \in {0, 1})
            /\ ~call.reduce =>
                  /\ LeftPlayers(primary) = Left
                  /\ RightPlayers(primary) = Right
            /\ call.reduce =>
                  /\ LeftPlayers(primary) =
                        (IF Left # 0 THEN sc.controllable_left_players ELSE 0)
                  /\ RightPlayers(primary) =
                        (IF Right # 0 THEN sc.controllable_right_players ELSE 0)
            /\ Returned =>
                  /\ HasStage(call.env, "MultiAgentToSingleAgent") <=> call.reduce
                  /\ call.reduce =>
                        StageArgs(call.env, "MultiAgentToSingleAgent") = <<Left, Right>>

C3_Witness ==
    /\ Returned
    /\ call.args.scenario_config.control_all_players
    /\ call.args.scenario_config.controllable_left_players = 3
    /\ call.args.scenario_config.controllable_right_players = 0
    /\ Left = 1 /\ Right = 0
    /\ call.reduce
    /\ LeftPlayers(call.players[1]) = 3 /\ RightPlayers(call.players[1]) = 0
    /\ HasStage(call.env, "MultiAgentToSingleAgent")

(***************************************************************************)
(* C4 as stated.  In a returned pipeline the checkpoint reward stage is    *)
(* applied directly around the raw simulator, inside the scenario-level    *)
(* reduction stage and inside the dump hook.                               *)
(***************************************************************************)
C4_RewardInsideReduction ==
    (Returned /\ HasStage(call.env, "CheckpointRewardWrapper")) =>
        /\ Pos(call.env, "CheckpointRewardWrapper") = Pos(call.env, "FootballEnv") + 1
        /\ HasStage(call.env, "MultiAgentToSingleAgent") =>
              Pos(call.env, "CheckpointRewardWrapper")
                  < Pos(call.env, "MultiAgentToSingleAgent")
        /\ HasStage(call.env, "PeriodicDumpWriter") =>
              Pos(call.env, "CheckpointRewardWrapper") < Pos(call.env, "PeriodicDumpWriter")

(***************************************************************************)
(* C4 amended.  In a returned pipeline the checkpoint reward stage is the  *)
(* first of the output stages: it is applied outside the scenario-level    *)
(* reduction stage and outside the dump hook whenever they are present (it *)
(* sees the reduced reward), and inside every other stage.                 *)
(***************************************************************************)
C4_RewardOutsideReduction ==
    (Returned /\ HasStage(call.env, "CheckpointRewardWrapper")) =>
        /\ HasStage(call.env, "MultiAgentToSingleAgent") =>
              Pos(call.env, "MultiAgentToSingleAgent")
                  < Pos(call.env, "CheckpointRewardWrapper")
        /\ HasStage(call.env, "PeriodicDumpWriter") =>
              Pos(call.env, "PeriodicDumpWriter") < Pos(call.env, "CheckpointRewardWrapper")
        /\ \A n \in StageNames(call.env) \ {"FootballEnv", "MultiAgentToSingleAgent",
                                            "PeriodicDumpWriter", "CheckpointRewardWrapper"} :
              Pos(call.env, "CheckpointRewardWrapper") < Pos(call.env, n)

C4_Witness ==
    /\ Returned
    /\ HasStage(call.env, "CheckpointRewardWrapper")
    /\ HasStage(call.env, "MultiAgentToSingleAgent")
    /\ HasStage(call.env, "PeriodicDumpWriter")
    /\ StageNames(call.env) \cap EncoderNames # {}

(***************************************************************************)
(* C5.  The configuration record the simulator is constructed from is the  *)
(* per-key merge of the named arguments and the override mapping: a key    *)
(* of other_config_options has the override's value (players and level     *)
(* included), every other key has the value derived from the named         *)
(* arguments, the roster being the players built with extra_players        *)
(* appended; there are no other keys.                                      *)
(***************************************************************************)
C5_LayeredMerge ==
    Resolved =>
        LET a == call.args
            ov == a.other_config_options
            c == call.env.config
            n == Len(call.players) - Len(a.extra_players.list)
        IN  /\ DOMAIN c = {"dump_full_episodes", "dump_scores", "players", "level",
                           "tracesdir", "write_video"} \cup DOMAIN ov
            /\ \A k \in DOMAIN ov : c[k] = ov[k]
            /\ "dump_full_episodes" \notin DOMAIN ov =>
                  c["dump_full_episodes"] = a.write_full_episode_dumps
            /\ "dump_scores" \notin DOMAIN ov => c["dump_scores"] = a.write_goal_dumps
            /\ "level" \notin DOMAIN ov => c["level"] = a.env_name
            /\ "tracesdir" \notin DOMAIN ov => c["tracesdir"] = a.logdir
            /\ "write_video" \notin DOMAIN ov => c["write_video"] = a.write_video
            /\ "players" \notin DOMAIN ov => c["players"] = call.players
            /\ a.extra_players.given =>
                  /\ n = 1
                  /\ SubSeq(call.players, n + 1, Len(call.players)) = a.extra_players.list

C5_Witness ==
    /\ Returned
    /\ call.args.extra_players.given
    /\ Len(call.players) = 2
    /\ DOMAIN call.args.other_config_options = {"players", "level"}
    /\ call.env.config["players"] # call.players
    /\ call.env.config["level"] # call.args.env_name
    /\ call.args.write_video /\ call.env.config["write_video"]

(***************************************************************************)
(* C8.  The single-agent squeeze stages are applied iff the environment's  *)
(* total controlled-agent count is exactly 1 (the reward squeeze always,   *)
(* the observation squeeze unless the representation is raw), also when    *)
(* the override mapping replaces the roster.  The count is the one the     *)
(* caller sees: the requested counts behind the reduction stage, the       *)
(* agent's counts in the roster of the final configuration otherwise.      *)
(***************************************************************************)
IsAgent(player) ==
    StartsWith(player, <<"a", "g", "e", "n", "t", ":">>)

RECURSIVE AgentControls(_)
AgentControls(players) ==
    IF players = <<>> THEN 0
    ELSE (IF IsAgent(Head(players))
          THEN LeftPlayers(Head(players)) + RightPlayers(Head(players))
          ELSE 0)
         + AgentControls(Tail(players))

ControlledCount ==
    IF call.reduce THEN Left + Right ELSE AgentControls(call.env.config["players"])

C8_SqueezeIffOneControlled ==
    Returned =>
        /\ HasStage(call.env, "SingleAgentRewardWrapper") <=> ControlledCount = 1
        /\ HasStage(call.env, "SingleAgentObservationWrapper")
              <=> (ControlledCount = 1 /\ call.args.representation # S_raw)

(***************************************************************************)
(* C9 as stated.  The stages of a returned pipeline appear in the order    *)
(* representation encoder, action mask, scenario-level reducer, dump hook, *)
(* observation squeeze, reward squeeze, frame stacking, state accessor;    *)
(* the state accessor is there once, outermost; the periodic dump hook     *)
(* and the immediate render are never both performed.                      *)
(***************************************************************************)
RankedNames ==
    EncoderNames \cup {"ActionMaskWrapper", "MultiAgentToSingleAgent", "PeriodicDumpWriter",
                       "SingleAgentObservationWrapper", "SingleAgentRewardWrapper",
                       "FrameStack", "GetStateWrapper"}

StatedRank(name) ==
    CASE name \in EncoderNames -> 1
      [] name = "ActionMaskWrapper" -> 2
      [] name = "MultiAgentToSingleAgent" -> 3
      [] name = "PeriodicDumpWriter" -> 4
      [] name = "SingleAgentObservationWrapper" -> 5
      [] name = "SingleAgentRewardWrapper" -> 6
      [] name = "FrameStack" -> 7
      [] name = "GetStateWrapper" -> 8

AssembledRank(name) ==
    CASE name = "MultiAgentToSingleAgent" -> 1
      [] name = "PeriodicDumpWriter" -> 2
      [] name \in EncoderNames -> 3
      [] name = "ActionMaskWrapper" -> 4
      [] name = "SingleAgentObservationWrapper" -> 5
      [] name = "SingleAgentRewardWrapper" -> 6
      [] name = "FrameStack" -> 7
      [] name = "GetStateWrapper" -> 8

AccessorOutermostOnce(env) ==
    /\ Count(env, "GetStateWrapper") = 1
    /\ env.stages[Len(env.stages)].name = "GetStateWrapper"

DumpOrRender(env) ==
    ~(HasStage(env, "PeriodicDumpWriter") /\ env.rendered)

C9_StatedOrder ==
    Returned =>
        /\ \A i, j \in 1..Len(call.env.stages) :
              (i < j /\ call.env.stages[i].name \in RankedNames
                     /\ call.env.stages[j].name \in RankedNames)
                  => StatedRank(call.env.stages[i].name) < StatedRank(call.env.stages[j].name)
        /\ AccessorOutermostOnce(call.env)
        /\ DumpOrRender(call.env)

(***************************************************************************)
(* C9 amended.  The stages of a returned pipeline appear in the order      *)
(* scenario-level reducer, dump hook, representation encoder, action mask, *)
(* observation squeeze, reward squeeze, frame stacking, state accessor;    *)
(* the state accessor is there once, outermost; the periodic dump hook     *)
(* and the immediate render are never both performed.                      *)
(***************************************************************************)
C9_AssembledOrder ==
    /\ Returned =>
        /\ \A i, j \in 1..Len(call.env.stages) :
              (i < j /\ call.env.stages[i].name \in RankedNames
                     /\ call.env.stages[j].name \in RankedNames)
                  => AssembledRank(call.env.stages[i].name)
                         < AssembledRank(call.env.stages[j].name)
        /\ AccessorOutermostOnce(call.env)
    /\ Resolved => DumpOrRender(call.env)

C9_Witness ==
    /\ Returned
    /\ StageNames(call.env) \cap EncoderNames # {}
    /\ RankedNames \ EncoderNames \subseteq StageNames(call.env)

(***************************************************************************)
(* C7.  After any sequence of create_environment calls, an environment     *)
(* built with a representation other than simplev1 does not expose the     *)
(* state_space attribute, neither on itself nor through its class.         *)
(***************************************************************************)
Exposes(env, attr) ==
    attr \in env.attrs \cup classAttrs

C7_NoSharedState ==
    \A i \in 1..Len(envs) :
        envs[i].representation # S_simplev1 => ~Exposes(envs[i], "state_space")

(***************************************************************************)
(* C6 as stated.  With 11 left and 11 right players and one controlled     *)
(* agent, the vector state() builds has 7*11 + 6*11 + 18 = 161 entries.    *)
(***************************************************************************)
FirstObs == frame.observation[1]
N1 == Len(FirstObs.left_team)
N2 == Len(FirstObs.right_team)
K == Len(frame.observation)

C6_Length161 ==
    (stateOut # <<>> /\ N1 = 11 /\ N2 = 11 /\ K = 1)
        => Len(stateOut) = 7 * 11 + 6 * 11 + 18

(***************************************************************************)
(* C6 amended.  With 11 left and 11 right players and one controlled       *)
(* agent, the vector state() builds has 4*(11+11) + 1*11 + 16 = 115        *)
(* entries.                                                                *)
(***************************************************************************)
C6_Length115 ==
    (stateOut # <<>> /\ N1 = 11 /\ N2 = 11 /\ K = 1)
        => Len(stateOut) = 4 * (11 + 11) + 1 * 11 + 16

C6_Witness ==
    stateOut # <<>> /\ N1 = 11 /\ N2 = 11 /\ K = 1 /\ FirstObs.ball_owned_team = 1

(***************************************************************************)
(* C10.  For a simplev1 environment the vector state() returns has         *)
(* 4*(n1+n2) + k*n1 + 16 entries, its ball-ownership block has 3 entries   *)
(* of which exactly one is 1, and that length is the declared state_space  *)
(* shape.                                                                  *)
(***************************************************************************)
C10_StateMatchesStateSpace ==
    (stateOut # <<>> /\ spaceOut # <<>>) =>
        LET own == SubSeq(stateOut, 4 * (N1 + N2) + 7, 4 * (N1 + N2) + 9)
        IN  /\ Len(stateOut) = 4 * (N1 + N2) + K * N1 + 16
            /\ Len(own) = 3
            /\ Cardinality({i \in 1..3 : own[i] = 1}) = 1
            /\ Cardinality({i \in 1..3 : own[i] = 0}) = 2
            /\ spaceOut = <<Len(stateOut)>>

====
